---- MODULE Spec2Model ----
(***************************************************************************)
(* Model of the streaming RESP decoder of quantmind/pulsar                 *)
(* (extensions/lib/parser.h): RedisParser, StringTask and ArrayTask, and   *)
(* of its encoder, pack_command.                                           *)
(*                                                                         *)
(* Bytes are strings, byte strings are sequences of them: an ASCII byte is  *)
(* the string of its character, a byte above 0x7F is named by its hex code *)
(* ("xFF").                                                                *)
(* Python objects produced by the decoder are records tagged with their    *)
(* Python type.  The C++ member functions, which mutate the parser and the *)
(* heap of tasks, are operators from a parser state                        *)
(*     [buffer, current, tasks]                                            *)
(* to a pair [p |-> parser state afterwards, res |-> returned object].     *)
(* The parser state carries a log of what one call did (the header lines   *)
(* it dispatched on, the bulk strings it completed, the tasks it resumed   *)
(* and those it destroyed); the log is only observed, the decoder never    *)
(* reads it.                                                               *)
(***************************************************************************)
EXTENDS Integers, Sequences, FiniteSets, TLC

\* ------------------------------------------------------------------------
\* Bytes and byte strings
\* ------------------------------------------------------------------------

CR == "\r"
LF == "\n"
\* #define CRLF "\r\n"
CRLF == <<CR, LF>>

RESPONSE_INTEGER == ":"
RESPONSE_STRING == "$"
RESPONSE_ARRAY == "*"
RESPONSE_STATUS == "+"
RESPONSE_ERROR == "-"

\* string::npos, the "not found" result of string::find
npos == -1

\* string::substr(pos, n): at most n bytes from the 0-based offset pos
substr(s, pos, n) ==
    SubSeq(s, pos + 1, IF pos + n > Len(s) THEN Len(s) ELSE pos + n)

\* string::erase(0, n): drop at most n bytes from the front
erase(s, n) ==
    IF n >= Len(s) THEN <<>> ELSE SubSeq(s, n + 1, Len(s))

\* string::find(CRLF): 0-based offset of the first CR LF pair, or npos
find(s) ==
    LET hits == {i \in 1..(Len(s) - 1) : s[i] = CR /\ s[i + 1] = LF}
    IN  IF hits = {} THEN npos
        ELSE (CHOOSE i \in hits : \A j \in hits : i <= j) - 1

\* ------------------------------------------------------------------------
\* atoi
\* ------------------------------------------------------------------------

Digits == {"0", "1", "2", "3", "4", "5", "6", "7", "8", "9"}

DigitVal(c) ==
    CASE c = "0" -> 0 [] c = "1" -> 1 [] c = "2" -> 2 [] c = "3" -> 3
      [] c = "4" -> 4 [] c = "5" -> 5 [] c = "6" -> 6 [] c = "7" -> 7
      [] c = "8" -> 8 [] c = "9" -> 9

\* isspace in the C locale
Spaces == {" ", "\t", "\n", "\r", "\f"}

RECURSIVE SkipSpaces(_)
SkipSpaces(s) ==
    IF s # <<>> /\ Head(s) \in Spaces THEN SkipSpaces(Tail(s)) ELSE s

\* The C library the extension is built against.  atoi on a number that an
\* int cannot hold is undefined behaviour; what comes out depends on the
\* library:
\*   "glibc"   atoi is (int) strtol(s, NULL, 10): strtol saturates at
\*             LONG_MIN and LONG_MAX (64 bits), the cast keeps the low 32 bits
\*             (the BSD and macOS libraries do the same)
\*   "msvcrt"  atoi saturates at INT_MIN and INT_MAX
Libcs == {"glibc", "msvcrt"}

VARIABLE libc

INT_MAX == 2147483647
INT_MIN == -2147483647 - 1

\* A magnitude of up to 64 bits is held in four limbs of 16 bits, the least
\* significant first; over is set once the magnitude has passed 2^64 - 1.
LimbBase == 65536

ZeroMagnitude == [limbs |-> <<0, 0, 0, 0>>, over |-> FALSE]

\* 10 * m + d
TimesTenPlus(m, d) ==
    LET c1 == 10 * m.limbs[1] + d
        c2 == 10 * m.limbs[2] + c1 \div LimbBase
        c3 == 10 * m.limbs[3] + c2 \div LimbBase
        c4 == 10 * m.limbs[4] + c3 \div LimbBase
    IN  [limbs |-> <<c1 % LimbBase, c2 % LimbBase, c3 % LimbBase, c4 % LimbBase>>,
         over |-> m.over \/ c4 \div LimbBase > 0]

\* the magnitude of the longest prefix of s made of digits, continuing m
RECURSIVE ParseDigits(_, _)
ParseDigits(s, m) ==
    IF s # <<>> /\ Head(s) \in Digits
    THEN ParseDigits(Tail(s), TimesTenPlus(m, DigitVal(Head(s))))
    ELSE m

\* the magnitude is above 2^63 - 1, or above 2^63 for a negative number
BeyondLong(m, negative) ==
    \/ m.over
    \/ m.limbs[4] > 32768
    \/ m.limbs[4] = 32768 /\ (~negative \/ m.limbs[1] + m.limbs[2] + m.limbs[3] > 0)

\* the magnitude is above 2^31 - 1, or above 2^31 for a negative number
BeyondInt(m, negative) ==
    \/ m.over
    \/ m.limbs[4] + m.limbs[3] > 0
    \/ m.limbs[2] > 32768
    \/ m.limbs[2] = 32768 /\ (~negative \/ m.limbs[1] > 0)

\* the int whose 32 bits are the limbs lo (low half) and hi (high half)
IntOfBits(lo, hi) ==
    IF hi >= 32768 THEN (hi - LimbBase) * LimbBase + lo ELSE hi * LimbBase + lo

\* (int) of the long with the given sign and magnitude: the low 32 bits of
\* its two's complement representation
LowBits(m, negative) ==
    IF ~negative THEN IntOfBits(m.limbs[1], m.limbs[2])
    ELSE IF m.limbs[1] = 0
    THEN IntOfBits(0, (LimbBase - m.limbs[2]) % LimbBase)
    ELSE IntOfBits(LimbBase - m.limbs[1], LimbBase - 1 - m.limbs[2])

\* the int atoi returns for a sign and a magnitude
IntOf(m, negative) ==
    IF ~BeyondInt(m, negative) THEN LowBits(m, negative)
    ELSE IF libc = "msvcrt" THEN (IF negative THEN INT_MIN ELSE INT_MAX)
    ELSE IF BeyondLong(m, negative) THEN (IF negative THEN 0 ELSE -1)
    ELSE LowBits(m, negative)

\* atoi(const char*): optional white space, optional sign, decimal digits;
\* conversion stops at the first other byte and is 0 when there is no digit
atoi(s) ==
    LET t == SkipSpaces(s)
    IN  IF t = <<>> THEN 0
        ELSE IF Head(t) = "-" THEN IntOf(ParseDigits(Tail(t), ZeroMagnitude), TRUE)
        ELSE IF Head(t) = "+" THEN IntOf(ParseDigits(Tail(t), ZeroMagnitude), FALSE)
        ELSE IntOf(ParseDigits(t, ZeroMagnitude), FALSE)

\* the decimal text of an int, as operator<< and str() print it; the digits
\* of a negative number are taken without negating it
DigitChar(d) ==
    CASE d = 0 -> "0" [] d = 1 -> "1" [] d = 2 -> "2" [] d = 3 -> "3"
      [] d = 4 -> "4" [] d = 5 -> "5" [] d = 6 -> "6" [] d = 7 -> "7"
      [] d = 8 -> "8" [] d = 9 -> "9"

RECURSIVE DecimalDigits(_)
DecimalDigits(n) ==
    IF n >= 0
    THEN IF n < 10 THEN <<DigitChar(n)>>
         ELSE Append(DecimalDigits(n \div 10), DigitChar(n % 10))
    ELSE LET d == (10 - (n % 10)) % 10
         IN  IF n > -10 THEN <<DigitChar(d)>>
             ELSE Append(DecimalDigits((n + d) \div 10), DigitChar(d))

Decimal(n) == IF n < 0 THEN <<"-">> \o DecimalDigits(n) ELSE DecimalDigits(n)

\* ------------------------------------------------------------------------
\* Python objects
\* ------------------------------------------------------------------------

\* a NULL PyObject*: no object was produced
NULL == [tag |-> "NULL"]

\* std::out_of_range leaving the call (string::at on an empty header line)
OutOfRange == [tag |-> "out_of_range"]

\* Py_BuildValue(""): None
PyNone == [tag |-> "None"]

\* Py_RETURN_FALSE: what get() hands out when no reply is available
PyFalse == [tag |-> "False"]

\* Py_BuildValue(BYTES_FORMAT, ...): a bytes object
pybytes(value) == [tag |-> "bytes", val |-> value]

\* a variant of pylong that converts with PyLong_FromString, which accepts a
\* decimal number and nothing else and returns NULL for any other text
pylong_FromString(value) ==
    LET digits == IF value # <<>> /\ Head(value) \in {"-", "+"}
                  THEN Tail(value) ELSE value
    IN  IF digits # <<>> /\ \A i \in 1..Len(digits) : digits[i] \in Digits
        THEN [tag |-> "int", val |-> atoi(value)]
        ELSE [tag |-> "NULL"]

\* PyLong_FromLongLong(atoi(...))
pylong(value) == [tag |-> "int", val |-> atoi(value)]

\* PyObject_CallObject(replyError, (message,))
replyError(message) == [tag |-> "ReplyError", val |-> message]

\* PyObject_CallObject(protocolError, ("Protocol Error",))
protocolError == [tag |-> "ProtocolError", val |-> "Protocol Error"]

\* PyList_New(0) and PyList_Append
PyList_New == [tag |-> "list", val |-> <<>>]
PyList_Append(list, item) == [list EXCEPT !.val = Append(@, item)]

\* Text.  A str is a sequence of characters: an ASCII character is the
\* string of itself, the one character beyond ASCII is e-acute, U+00E9, whose
\* UTF-8 encoding is the two bytes C3 A9.  The byte FF is in no UTF-8
\* encoding.
xC3 == "xC3"
xA9 == "xA9"
xFF == "xFF"
EAcute == "U+00E9"

HighBytes == {xC3, xA9, xFF}

\* the str of a sequence of characters
pystr(chars) == [tag |-> "str", val |-> chars]

\* the UTF-8 codec, decoding: the characters of a byte string, or Invalid
\* when the bytes are no UTF-8 text (UnicodeDecodeError)
Invalid == <<"UnicodeDecodeError">>

RECURSIVE utf8_decode(_)
utf8_decoded(c, rest) == IF rest = Invalid THEN Invalid ELSE <<c>> \o rest

utf8_decode(value) ==
    IF value = <<>> THEN <<>>
    ELSE IF Head(value) \notin HighBytes
    THEN utf8_decoded(Head(value), utf8_decode(Tail(value)))
    ELSE IF Len(value) >= 2 /\ value[1] = xC3 /\ value[2] = xA9
    THEN utf8_decoded(EAcute, utf8_decode(Tail(Tail(value))))
    ELSE Invalid

\* the UTF-8 codec, encoding
RECURSIVE utf8_encode(_)
utf8_encode(chars) ==
    IF chars = <<>> THEN <<>>
    ELSE (IF Head(chars) = EAcute THEN <<xC3, xA9>> ELSE <<Head(chars)>>)
            \o utf8_encode(Tail(chars))

\* PyUnicode_Decode(bytes, size, encoding, NULL): the str, or NULL with an
\* exception set when the codec is not known (LookupError) or the bytes are
\* not valid in it
PyUnicode_Decode(value, enc) ==
    IF enc = "utf-8" /\ utf8_decode(value) # Invalid
    THEN pystr(utf8_decode(value))
    ELSE NULL

\* PyUnicode_AsUTF8String(str): the bytes of its UTF-8 encoding
PyUnicode_AsUTF8String(obj) == utf8_encode(obj.val)

IsObject(r) == r.tag \notin {"NULL", "out_of_range"}

\* ------------------------------------------------------------------------
\* Tasks (class Task, StringTask, ArrayTask) and the heap they live on
\* ------------------------------------------------------------------------

\* A Task* is a positive heap address; 0 is the NULL pointer.
NullTask == 0

\* a variant of IsMinusOne that takes every length below 1 for the nil marker
IsMinusOne_OrZero(length) == length <= 0

\* Task::length is a size_t.  A size_t value v is represented by the integer
\* s with v = s mod 2^64 and -2^63 <= s < 2^63, so that the value built from
\* atoi's -1 is -1 and the comparisons below are the unsigned ones.
\* this->length == -1
IsMinusOne(length) == length = -1

\* this->length > 0 and !this->length on a size_t
IsPositive(length) == length # 0

\* parser.buffer.size() >= this->length + 2, both sides unsigned: a sum that
\* is negative in the representation is a value above any buffer size
HasBytes(size, length) == length + 2 >= 0 /\ size >= length + 2

\* a size_t count passed to string::substr: the bytes available bound it
Clip(length, size) == IF length < 0 \/ length > size THEN size ELSE length

\* new StringTask(length, next)
StringTask(length, next) ==
    [kind |-> "String", length |-> length, next |-> next, array |-> NULL]

\* new ArrayTask(length, next): array(PyList_New(0))
ArrayTask(length, next) ==
    [kind |-> "Array", length |-> length, next |-> next, array |-> PyList_New]

\* operator new: the address the allocator hands out
NewAddress(tasks) ==
    IF DOMAIN tasks = {} THEN 1
    ELSE 1 + CHOOSE a \in DOMAIN tasks : \A b \in DOMAIN tasks : b <= a

Allocate(p, task) ==
    [p EXCEPT !.tasks = (NewAddress(p.tasks) :> task) @@ p.tasks]

\* delete task
Delete(p, t) ==
    [p EXCEPT !.tasks = [a \in DOMAIN p.tasks \ {t} |-> p.tasks[a]]]

Ret(p, res) == [p |-> p, res |-> res]

\* record, in the log of the call, what a step of the decoder did
Logged(p, event) == [p EXCEPT !.log = Append(@, event)]

\* the parser state itself, without the log
Unlogged(p) == [p EXCEPT !.log = <<>>]

\* ------------------------------------------------------------------------
\* RedisParser
\* ------------------------------------------------------------------------

RECURSIVE _get(_, _, _)
RECURSIVE decode(_, _, _)
RECURSIVE resume(_, _, _, _)
RECURSIVE ArrayTask_loop(_, _, _)
RECURSIVE ArrayTask_decode(_, _, _, _)

\* a variant of StringTask_decode that takes the payload off the buffer and
\* leaves the CRLF behind it
StringTask_decode_KeepsTrailer(p, enc, t, result) ==
    LET length == p.tasks[t].length
        p0 == [p EXCEPT !.current = NullTask]
    IN  IF IsMinusOne(length) THEN Ret(p0, PyNone)
        ELSE IF HasBytes(Len(p0.buffer), length)
        THEN LET value == substr(p0.buffer, 0, Clip(length, Len(p0.buffer)))
                 obj == IF enc # ""
                        THEN IF length < 0 THEN NULL
                             ELSE PyUnicode_Decode(value, enc)
                        ELSE pybytes(value)
                 p1 == [p0 EXCEPT !.buffer = erase(@, length)]
             IN  Ret(Logged(p1, [op |-> "StringTask", length |-> length,
                                 from |-> Unlogged(p), to |-> Unlogged(p1),
                                 res |-> obj]),
                     obj)
        ELSE Ret([p0 EXCEPT !.current = t], NULL)

\* StringTask::_decode
StringTask_decode(p, enc, t, result) ==
    LET length == p.tasks[t].length
        p0 == [p EXCEPT !.current = NullTask]
    IN  IF IsMinusOne(length) THEN Ret(p0, PyNone)
        ELSE IF HasBytes(Len(p0.buffer), length)
        THEN LET value == substr(p0.buffer, 0, Clip(length, Len(p0.buffer)))
                 obj == IF enc # ""
                        THEN IF length < 0 THEN NULL
                             ELSE PyUnicode_Decode(value, enc)
                        ELSE pybytes(value)
                 p1 == [p0 EXCEPT !.buffer = erase(@, length + 2)]
             IN  Ret(Logged(p1, [op |-> "StringTask", length |-> length,
                                 from |-> Unlogged(p), to |-> Unlogged(p1),
                                 res |-> obj]),
                     obj)
        ELSE Ret([p0 EXCEPT !.current = t], NULL)

\* ArrayTask::_decode: this->length--; PyList_Append(this->array, result);
ArrayTask_append(p, t, result) ==
    [p EXCEPT !.tasks[t].length = @ - 1,
              !.tasks[t].array = PyList_Append(@, result)]

\* a variant of ArrayTask_element with an if in place of the while: one
\* element is read, then the loop is left
ArrayTask_element_Once(r, enc, t) ==
    IF r.res = OutOfRange \/ r.res = NULL THEN r
    ELSE Ret(ArrayTask_append(r.p, t, r.res), NULL)

\* ArrayTask::_decode, the body of the while loop once parser._get(this) has
\* returned r: stop without an object, else append it and go round again
ArrayTask_element(r, enc, t) ==
    IF r.res = OutOfRange \/ r.res = NULL THEN r
    ELSE ArrayTask_loop(ArrayTask_append(r.p, t, r.res), enc, t)

\* ArrayTask::_decode, the while loop over the elements still missing
ArrayTask_loop(p, enc, t) ==
    IF IsPositive(p.tasks[t].length)
    THEN ArrayTask_element(_get(p, enc, t), enc, t)
    ELSE Ret(p, NULL)

\* ArrayTask::_decode, after the loop has left the parser as r.p: the array
\* when it is complete, else the task registers itself unless a task is
\* registered already
ArrayTask_end(r, t) ==
    IF r.res = OutOfRange THEN r
    ELSE IF ~IsPositive(r.p.tasks[t].length)
    THEN Ret([r.p EXCEPT !.current = NullTask], r.p.tasks[t].array)
    ELSE IF r.p.current = NullTask
    THEN Ret([r.p EXCEPT !.current = t], NULL)
    ELSE Ret(r.p, NULL)

\* a variant of ArrayTask_decode that appends the object of a resumed child
\* without counting it
ArrayTask_decode_Uncounted(p, enc, t, result) ==
    IF IsMinusOne(p.tasks[t].length) THEN Ret(p, PyNone)
    ELSE ArrayTask_end(
           ArrayTask_loop(IF result # NULL
                          THEN [p EXCEPT !.tasks[t].array = PyList_Append(@, result)]
                          ELSE p,
                          enc, t),
           t)

\* ArrayTask::_decode
ArrayTask_decode(p, enc, t, result) ==
    IF IsMinusOne(p.tasks[t].length) THEN Ret(p, PyNone)
    ELSE ArrayTask_end(
           ArrayTask_loop(IF result # NULL THEN ArrayTask_append(p, t, result)
                          ELSE p,
                          enc, t),
           t)

\* task->_decode(parser, result): the virtual call
Task_decode(p, enc, t, result) ==
    IF p.tasks[t].kind = "String"
    THEN StringTask_decode(p, enc, t, result)
    ELSE ArrayTask_decode(p, enc, t, result)

\* delete task, with its log entry: the task, whether it was on the heap, the
\* object its own step produced, and the parser once the task is gone
destroyed(p, t, value) ==
    Logged(Delete(p, t),
           [op |-> "delete", task |-> t, alive |-> t \in DOMAIN p.tasks,
            value |-> value, to |-> Unlogged(Delete(p, t))])

\* a variant of decode_delete without the test of the result: the task is
\* deleted whether its step has produced an object or not
decode_delete_Always(r, t) ==
    IF r.res = OutOfRange THEN r ELSE Ret(destroyed(r.p, t, r.res), r.res)

\* RedisParser::decode: if (result) delete task
decode_delete(r, t) ==
    IF IsObject(r.res) THEN Ret(destroyed(r.p, t, r.res), r.res) ELSE r

\* RedisParser::decode
decode(p, enc, t) == decode_delete(Task_decode(p, enc, t, NULL), t)

\* RedisParser::resume: delete task, which has produced value, once the
\* continuation has returned r
resume_delete(r, t, value) ==
    IF r.res = OutOfRange THEN r ELSE Ret(destroyed(r.p, t, value), r.res)

\* the log entry of a resumed task that has produced its object, with the
\* addresses of the tasks then on the heap
resumed(r, t) ==
    Logged(r.p, [op |-> "resume", task |-> t, next |-> r.p.tasks[t].next,
                 res |-> r.res, heap |-> DOMAIN r.p.tasks])

\* RedisParser::resume, once task->_decode has returned r: a completed task
\* hands its object to its continuation, if it has one, and is deleted
resume_next(r, enc, t) ==
    IF IsObject(r.res)
    THEN IF r.p.tasks[t].next # NullTask
         THEN resume_delete(resume(resumed(r, t), enc, r.p.tasks[t].next, r.res),
                            t, r.res)
         ELSE Ret(destroyed(resumed(r, t), t, r.res), r.res)
    ELSE r

\* RedisParser::resume
resume(p, enc, t, result) == resume_next(Task_decode(p, enc, t, result), enc, t)

\* a variant of dispatch whose default case leaves the buffer alone
dispatch_NoClear(p1, enc, next, rtype, response) ==
    CASE rtype = RESPONSE_STATUS ->
           Ret(p1, pybytes(response))
      [] rtype = RESPONSE_INTEGER ->
           Ret(p1, pylong(response))
      [] rtype = RESPONSE_ERROR ->
           Ret(p1, replyError(response))
      [] rtype = RESPONSE_STRING ->
           decode(Allocate(p1, StringTask(atoi(response), next)),
                  enc, NewAddress(p1.tasks))
      [] rtype = RESPONSE_ARRAY ->
           decode(Allocate(p1, ArrayTask(atoi(response), next)),
                  enc, NewAddress(p1.tasks))
      [] OTHER ->
           Ret(p1, protocolError)

\* a variant of dispatch that treats an error line as a failure of the
\* stream and clears the buffer
dispatch_ErrorClears(p1, enc, next, rtype, response) ==
    CASE rtype = RESPONSE_STATUS ->
           Ret(p1, pybytes(response))
      [] rtype = RESPONSE_INTEGER ->
           Ret(p1, pylong(response))
      [] rtype = RESPONSE_ERROR ->
           Ret([p1 EXCEPT !.buffer = <<>>], replyError(response))
      [] rtype = RESPONSE_STRING ->
           decode(Allocate(p1, StringTask(atoi(response), next)),
                  enc, NewAddress(p1.tasks))
      [] rtype = RESPONSE_ARRAY ->
           decode(Allocate(p1, ArrayTask(atoi(response), next)),
                  enc, NewAddress(p1.tasks))
      [] OTHER ->
           Ret([p1 EXCEPT !.buffer = <<>>], protocolError)

\* RedisParser::_get, the switch on the type byte of the header line
dispatch(p1, enc, next, rtype, response) ==
    CASE rtype = RESPONSE_STATUS ->
           Ret(p1, pybytes(response))
      [] rtype = RESPONSE_INTEGER ->
           Ret(p1, pylong(response))
      [] rtype = RESPONSE_ERROR ->
           Ret(p1, replyError(response))
      [] rtype = RESPONSE_STRING ->
           decode(Allocate(p1, StringTask(atoi(response), next)),
                  enc, NewAddress(p1.tasks))
      [] rtype = RESPONSE_ARRAY ->
           decode(Allocate(p1, ArrayTask(atoi(response), next)),
                  enc, NewAddress(p1.tasks))
      [] OTHER ->
           Ret([p1 EXCEPT !.buffer = <<>>], protocolError)

\* the log entry of a header line: the line, the task it was read for, the
\* parser before it was read and when _get returns (the task made for the
\* line, if any, is at address NewAddress(from.tasks)), and what _get returns
dispatched(r, p, line, next) ==
    Ret(Logged(r.p, [op |-> "_get", line |-> line, next |-> next,
                     from |-> Unlogged(p), to |-> Unlogged(r.p),
                     res |-> r.res]),
        r.res)

\* a variant of _get without the test for string::npos: with no CRLF in the
\* buffer substr(0, npos) is the whole buffer and erase(0, npos + 2) takes
\* one byte
_get_Unchecked(p, enc, next) ==
    LET size == find(p.buffer)
        line == IF size = npos THEN p.buffer ELSE substr(p.buffer, 0, size)
        p1 == [p EXCEPT !.buffer = erase(@, size + 2)]
    IN  IF line = <<>> THEN Ret(p1, OutOfRange)
        ELSE dispatched(dispatch(p1, enc, next, Head(line), Tail(line)),
                        p, line, next)

\* RedisParser::_get
_get(p, enc, next) ==
    LET size == find(p.buffer)
        line == substr(p.buffer, 0, size)
        p1 == [p EXCEPT !.buffer = erase(@, size + 2)]
    IN  IF size # npos
        THEN IF line = <<>> THEN Ret(p1, OutOfRange)
             ELSE dispatched(dispatch(p1, enc, next, Head(line), Tail(line)),
                             p, line, next)
        ELSE Ret(p, NULL)

\* RedisParser::get: if (result) return result; else Py_RETURN_FALSE
get_result(r) == IF r.res = NULL THEN Ret(r.p, PyFalse) ELSE r

\* a variant of get that dispatches on a new header line even when a task
\* is pending
get_AlwaysDispatch(p, enc) == get_result(_get(p, enc, NullTask))

\* RedisParser::get
get(p, enc) ==
    get_result(IF p.current # NullTask
               THEN resume(p, enc, p.current, NULL)
               ELSE _get(p, enc, NullTask))

\* RedisParser::feed
feed(p, data) == [p EXCEPT !.buffer = @ \o data]

\* RedisParser::RedisParser: _current(NULL), empty buffer and encoding
NewParser ==
    [buffer |-> <<>>, current |-> NullTask, tasks |-> <<>>, log |-> <<>>]

\* ------------------------------------------------------------------------
\* The encoder: pack_command
\*
\* The objects it is given are None, bytes, str, int, list, tuple and dict;
\* a dict is the sequence of its items [key, val] in insertion order.
\* ------------------------------------------------------------------------

pyint(n) == [tag |-> "int", val |-> n]
pylist(items) == [tag |-> "list", val |-> items]
pytuple(items) == [tag |-> "tuple", val |-> items]
pydict(items) == [tag |-> "dict", val |-> items]

\* #define NIL string("$-1\r\n")
NIL == <<"$", "-", "1", CR, LF>>

\* operator<<(size_t)
size_text(n) == Decimal(n)

\* to_bytes, of an object that is none of the above kinds but an int:
\* PyUnicode_AsUTF8String(PyObject_Str(value))
to_bytes(value) ==
    IF value.tag = "bytes" THEN value.val
    ELSE PyUnicode_AsUTF8String(pystr(Decimal(value.val)))

\* a variant of obj_bulk that leaves out the CRLF behind the value
obj_bulk_NoTrailer(value) ==
    <<"$">> \o size_text(Len(value)) \o CRLF \o value

\* obj_bulk
obj_bulk(value) ==
    <<"$">> \o size_text(Len(value)) \o CRLF \o value \o CRLF

\* PyObject_GetItem(mapping, key) of a dict: the items stored at a key equal
\* to the int index (none: KeyError, the call returns NULL)
ItemsAt(mapping, index) ==
    {i \in 1..Len(mapping.val) : mapping.val[i].key = pyint(index)}

RECURSIVE obj_multibulk(_)
RECURSIVE multibulk_items(_)
RECURSIVE dict_values(_, _)

\* the loops of list_multibulk and dict_multibulk that write the items
multibulk_items(items) ==
    IF items = <<>> THEN <<>>
    ELSE obj_multibulk(Head(items)) \o multibulk_items(Tail(items))

\* a variant of list_multibulk whose loop starts at index 1
list_multibulk_SkipFirst(args) ==
    <<"*">> \o size_text(Len(args.val)) \o CRLF
        \o multibulk_items(IF args.val = <<>> THEN <<>> ELSE Tail(args.val))

\* list_multibulk
list_multibulk(args) ==
    <<"*">> \o size_text(Len(args.val)) \o CRLF \o multibulk_items(args.val)

\* dict_multibulk, the first loop: the values at the keys index, index + 1,
\* ... up to the first key that is missing
dict_values(mapping, index) ==
    IF ItemsAt(mapping, index) = {} THEN <<>>
    ELSE <<mapping.val[CHOOSE i \in ItemsAt(mapping, index) : TRUE].val>>
            \o dict_values(mapping, index + 1)

\* a variant of dict_multibulk whose first key is 0
dict_multibulk_FromZero(mapping) ==
    <<"*">> \o size_text(Len(dict_values(mapping, 0))) \o CRLF
        \o multibulk_items(dict_values(mapping, 0))

\* dict_multibulk
dict_multibulk(mapping) ==
    <<"*">> \o size_text(Len(dict_values(mapping, 1))) \o CRLF
        \o multibulk_items(dict_values(mapping, 1))

\* a variant of obj_multibulk that writes None as an empty bulk string
obj_multibulk_NilAsEmpty(obj) ==
    IF obj = PyNone THEN obj_bulk(<<>>)
    ELSE IF obj.tag = "bytes" THEN obj_bulk(obj.val)
    ELSE IF obj.tag = "str" THEN obj_bulk(PyUnicode_AsUTF8String(obj))
    ELSE IF obj.tag \in {"list", "tuple"} THEN list_multibulk(obj)
    ELSE IF obj.tag = "dict" THEN dict_multibulk(obj)
    ELSE obj_bulk(to_bytes(obj))

\* obj_multibulk (PY_MAJOR_VERSION 3)
obj_multibulk(obj) ==
    IF obj = PyNone THEN NIL
    ELSE IF obj.tag = "bytes" THEN obj_bulk(obj.val)
    ELSE IF obj.tag = "str" THEN obj_bulk(PyUnicode_AsUTF8String(obj))
    ELSE IF obj.tag \in {"list", "tuple"} THEN list_multibulk(obj)
    ELSE IF obj.tag = "dict" THEN dict_multibulk(obj)
    ELSE obj_bulk(to_bytes(obj))

\* pack_command: the bytes of the PyBytes object it returns
pack_command(obj) == obj_multibulk(obj)

\* ------------------------------------------------------------------------
\* The whole stream fed in one call
\* ------------------------------------------------------------------------

\* get() called again and again until it returns Py_False: the objects it
\* returned, each with the number of bytes then left in the buffer
RECURSIVE Drain(_, _, _)
Drained(r, enc, out) ==
    IF r.res = PyFalse THEN out
    ELSE Drain(r.p, enc, Append(out, [res |-> r.res, left |-> Len(r.p.buffer)]))

Drain(p, enc, out) == Drained(get(Unlogged(p), enc), enc, out)

\* a new parser, one feed call with all of data, then get() until Py_False
OneShot(data, enc) == Drain(feed(NewParser, data), enc, <<>>)

Results(trace) == [i \in 1..Len(trace) |-> trace[i].res]

\* an object with every str in it taken back to the bytes it was decoded
\* from (str.encode)
RECURSIVE Encoded(_)
Encoded(obj) ==
    IF obj.tag = "str" THEN pybytes(PyUnicode_AsUTF8String(obj))
    ELSE IF obj.tag = "list"
    THEN [obj EXCEPT !.val = [i \in 1..Len(obj.val) |-> Encoded(obj.val[i])]]
    ELSE obj

EncodedAll(objs) == [i \in 1..Len(objs) |-> Encoded(objs[i])]

\* ------------------------------------------------------------------------
\* Byte streams a peer may send
\* ------------------------------------------------------------------------

\* the lines and payloads the streams are made of
Tokens ==
    { <<"+", "a", CR, LF>>,            \* status line
      <<"-", "a", CR, LF>>,            \* error line
      <<":", "1", CR, LF>>,            \* integer line
      <<"$", "1", CR, LF>>,            \* bulk header, one byte follows
      <<"$", "0", CR, LF>>,            \* bulk header, empty payload
      <<"$", "-", "1", CR, LF>>,       \* nil bulk
      <<"*", "1", CR, LF>>,            \* array header, one element
      <<"*", "2", CR, LF>>,            \* array header, two elements
      <<"*", "0", CR, LF>>,            \* empty array
      <<"*", "-", "1", CR, LF>>,       \* nil array
      <<"X", CR, LF>>,                 \* one payload byte, or a bad header
      <<CR, LF>> }                     \* empty payload, or an empty header

\* the streams of at most n bytes made of these tokens
RECURSIVE StreamsUpTo(_)
StreamsUpTo(n) ==
    {<<>>} \cup
    UNION {{t \o s : s \in StreamsUpTo(n - Len(t))} :
             t \in {u \in Tokens : Len(u) <= n}}

\* the number of bytes of the longest stream
MaxBytes == 12

Streams == StreamsUpTo(MaxBytes)

\* ------------------------------------------------------------------------
\* Well-formed streams: the wire grammar of the replies
\*   <status>  ::= "+" <text> CRLF        <error> ::= "-" <text> CRLF
\*   <integer> ::= ":" <decimal> CRLF
\*   <bulk>    ::= "$" <length> CRLF <length bytes> CRLF | "$-1" CRLF
\*   <array>   ::= "*" <count> CRLF <count replies>      | "*-1" CRLF
\* ------------------------------------------------------------------------

IsNumber(text) == text # <<>> /\ \A i \in 1..Len(text) : text[i] \in Digits

IsDecimal(text) ==
    IsNumber(text) \/ (text # <<>> /\ Head(text) = "-" /\ IsNumber(Tail(text)))

MinusOne == <<"-", "1">>

\* the number a text of digits denotes
RECURSIVE NumberValue(_)
NumberValue(text) ==
    IF text = <<>> THEN 0
    ELSE 10 * NumberValue(SubSeq(text, 1, Len(text) - 1)) + DigitVal(text[Len(text)])

\* the offset just after the reply that starts at offset i of s, or npos when
\* no complete well-formed reply starts there
RECURSIVE UnitEnd(_, _)
RECURSIVE ElementsEnd(_, _, _)
RECURSIVE ElementsFrom(_, _, _)
UnitEnd(s, i) ==
    LET rest == erase(s, i)
        size == find(rest)
        line == substr(rest, 0, size)
        text == Tail(line)
        body == i + size + 2
    IN  IF size = npos \/ size = 0 THEN npos
        ELSE CASE Head(line) \in {RESPONSE_STATUS, RESPONSE_ERROR} -> body
               [] Head(line) = RESPONSE_INTEGER ->
                    IF IsDecimal(text) THEN body ELSE npos
               [] Head(line) = RESPONSE_STRING ->
                    IF text = MinusOne THEN body
                    ELSE IF IsNumber(text)
                            /\ substr(s, body + NumberValue(text), 2) = CRLF
                    THEN body + NumberValue(text) + 2
                    ELSE npos
               [] Head(line) = RESPONSE_ARRAY ->
                    IF text = MinusOne THEN body
                    ELSE IF IsNumber(text)
                    THEN ElementsEnd(s, body, NumberValue(text))
                    ELSE npos
               [] OTHER -> npos

ElementsFrom(s, e, n) ==
    IF e = npos THEN npos ELSE ElementsEnd(s, e, n)

ElementsEnd(s, i, n) ==
    IF n = 0 THEN i ELSE ElementsFrom(s, UnitEnd(s, i), n - 1)

\* the offsets at which the replies of s end, when s is a sequence of
\* complete well-formed replies from offset i on; {npos} is among them if not
RECURSIVE UnitEnds(_, _)
UnitEndsFrom(s, e) ==
    IF e = npos THEN {npos} ELSE {e} \cup UnitEnds(s, e)

UnitEnds(s, i) ==
    IF i = Len(s) THEN {} ELSE UnitEndsFrom(s, UnitEnd(s, i))

WellFormed(s) == npos \notin UnitEnds(s, 0)

\* the number of bytes of the longest well-formed stream
MaxWellFormedBytes == 16

WellFormedStreams == {s \in StreamsUpTo(MaxWellFormedBytes) : WellFormed(s)}

\* one array reply and nothing else
ArrayStreams ==
    {s \in WellFormedStreams :
        /\ s # <<>>
        /\ Head(s) = RESPONSE_ARRAY
        /\ UnitEnd(s, 0) = Len(s)
        /\ Head(Tail(s)) \in {"1", "2"}}

\* the longest chunk one feed call appends
MaxChunk == 2

\* streams with bulk strings that are and that are not UTF-8 text
TextTokens ==
    { <<"$", "1", CR, LF>>,            \* bulk header, one byte follows
      <<"$", "2", CR, LF>>,            \* bulk header, two bytes follow
      <<"a", CR, LF>>,                 \* an ASCII payload
      <<xC3, xA9, CR, LF>>,            \* the UTF-8 encoding of e-acute
      <<xFF, CR, LF>>,                 \* a payload that is not UTF-8
      <<"*", "1", CR, LF>>,
      <<"*", "2", CR, LF>>,
      <<"+", "a", CR, LF>> }

RECURSIVE TextStreamsUpTo(_)
TextStreamsUpTo(n) ==
    {<<>>} \cup
    UNION {{t \o s : s \in TextStreamsUpTo(n - Len(t))} :
             t \in {u \in TextTokens : Len(u) <= n}}

\* the number of bytes of the longest of them
MaxTextBytes == 11

TextStreams == TextStreamsUpTo(MaxTextBytes)

\* the text encodings set_encoding is called with
Encodings == {"", "utf-8"}

\* ------------------------------------------------------------------------
\* The decoder fed from a stream
\*
\* No header line of these streams holds a number beyond INT_MAX, so atoi
\* returns the same int under every C library and one of them stands for all.
\* ------------------------------------------------------------------------

VARIABLES
    stream,     \* the bytes the peer sends over the connection
    pos,        \* how many of them have been fed
    buffer,     \* RedisParser::buffer
    current,    \* RedisParser::_current
    tasks,      \* the heap of Task objects
    encoding,   \* RedisParser::encoding
    replies,    \* what the get() calls returned, Py_False left out
    last,       \* what the latest call was or returned
    args        \* the object pack_command was called with, NULL before

vars ==
    <<libc, stream, pos, buffer, current, tasks, encoding, replies, last, args>>

Parser ==
    [buffer |-> buffer, current |-> current, tasks |-> tasks, log |-> <<>>]

Init ==
    /\ libc = "glibc"
    /\ args = NULL
    /\ stream \in Streams
    /\ pos = 0
    /\ buffer = NewParser.buffer
    /\ current = NewParser.current
    /\ tasks = NewParser.tasks
    /\ encoding = ""
    /\ replies = <<>>
    /\ last = [tag |-> "new"]

\* feed(data, size) with the next n bytes of the stream
Feed(n) ==
    /\ pos + n <= Len(stream)
    /\ buffer' = feed(Parser, SubSeq(stream, pos + 1, pos + n)).buffer
    /\ pos' = pos + n
    /\ last' = [tag |-> "feed"]
    /\ UNCHANGED <<libc, args, stream, current, tasks, encoding, replies>>

\* get()
GetReply ==
    LET r == get(Parser, encoding)
    IN  /\ buffer' = r.p.buffer
        /\ current' = r.p.current
        /\ tasks' = r.p.tasks
        /\ last' = r.res
        /\ replies' = IF r.res = PyFalse THEN replies ELSE Append(replies, r.res)
        /\ UNCHANGED <<libc, args, stream, pos, encoding>>

\* set_encoding(name)
SetEncoding(e) ==
    /\ encoding' = e
    /\ last' = [tag |-> "set_encoding"]
    /\ UNCHANGED <<libc, args, stream, pos, buffer, current, tasks, replies>>

Next ==
    \/ \E n \in 1..MaxChunk : Feed(n)
    \/ GetReply
    \/ \E e \in Encodings : SetEncoding(e)

Spec == Init /\ [][Next]_vars

\* ------------------------------------------------------------------------
\* The decoder fed from a well-formed stream
\* ------------------------------------------------------------------------

InitWellFormed ==
    /\ libc = "glibc"
    /\ args = NULL
    /\ stream \in WellFormedStreams
    /\ pos = 0
    /\ buffer = NewParser.buffer
    /\ current = NewParser.current
    /\ tasks = NewParser.tasks
    /\ encoding = ""
    /\ replies = <<>>
    /\ last = [tag |-> "new"]

SpecWellFormed == InitWellFormed /\ [][Next]_vars

\* the decoder fed from a stream of bulk strings, an encoding set or not
InitText ==
    /\ libc = "glibc"
    /\ args = NULL
    /\ stream \in TextStreams
    /\ pos = 0
    /\ buffer = NewParser.buffer
    /\ current = NewParser.current
    /\ tasks = NewParser.tasks
    /\ encoding = ""
    /\ replies = <<>>
    /\ last = [tag |-> "new"]

SpecText == InitText /\ [][Next]_vars

\* ------------------------------------------------------------------------
\* Integer replies
\* ------------------------------------------------------------------------

\* numbers of the signed 64-bit range around which the widths of int and of
\* long long show: 1000, 2^31 - 1, 2^31, 3 * 10^9, 2^32, 2^63 - 1
Numbers ==
    { <<"1", "0", "0", "0">>,
      <<"2", "1", "4", "7", "4", "8", "3", "6", "4", "7">>,
      <<"2", "1", "4", "7", "4", "8", "3", "6", "4", "8">>,
      <<"3", "0", "0", "0", "0", "0", "0", "0", "0", "0">>,
      <<"4", "2", "9", "4", "9", "6", "7", "2", "9", "6">>,
      <<"9", "2", "2", "3", "3", "7", "2", "0", "3", "6", "8", "5", "4", "7", "7", "5", "8", "0", "7">> }

\* the most digits of an integer reply
MaxDigits == 19

\* these numbers and those their first digits make, with and without a sign
IntegerTexts ==
    UNION {{substr(n, 0, k), <<"-">> \o substr(n, 0, k)} :
             n \in Numbers, k \in 1..MaxDigits}

IntegerStreams == {<<RESPONSE_INTEGER>> \o t \o CRLF : t \in IntegerTexts}

InitInteger ==
    /\ libc \in Libcs
    /\ args = NULL
    /\ stream \in IntegerStreams
    /\ pos = 0
    /\ buffer = NewParser.buffer
    /\ current = NewParser.current
    /\ tasks = NewParser.tasks
    /\ encoding = ""
    /\ replies = <<>>
    /\ last = [tag |-> "new"]

NextInteger ==
    \/ \E n \in 1..MaxChunk : Feed(n)
    \/ GetReply

SpecInteger == InitInteger /\ [][NextInteger]_vars

\* ------------------------------------------------------------------------
\* pack_command, and its output fed to a new decoder
\* ------------------------------------------------------------------------

\* the scalars among the objects packed
PackScalars ==
    { PyNone,
      pybytes(<<>>), pybytes(<<"a">>), pybytes(CRLF), pybytes(<<xFF>>),
      pystr(<<"a">>), pystr(<<EAcute>>),
      pyint(10), pyint(-1) }

\* the sequences of at most n of the given items
SeqsUpTo(items, n) == UNION {[1..k -> items] : k \in 0..n}

\* the longest sequence packed
MaxItems == 2

\* dicts with and without the keys 1, 2, ...
PackDicts ==
    { pydict(<<>>),
      pydict(<<[key |-> pyint(1), val |-> pybytes(<<"a">>)]>>),
      pydict(<<[key |-> pyint(2), val |-> pybytes(<<"a">>)],
               [key |-> pyint(1), val |-> PyNone]>>),
      pydict(<<[key |-> pyint(1), val |-> pyint(10)],
               [key |-> pyint(3), val |-> pybytes(<<"a">>)]>>),
      pydict(<<[key |-> pystr(<<"a">>), val |-> pybytes(<<"a">>)],
               [key |-> pyint(0), val |-> pybytes(<<"a">>)]>>) }

\* the elements of the sequences packed: scalars, sequences and a dict
PackItems ==
    { PyNone,
      pybytes(<<"a">>), pybytes(CRLF), pybytes(<<xFF>>),
      pystr(<<EAcute>>),
      pyint(10),
      pylist(<<>>),
      pylist(<<PyNone, pybytes(<<"a">>)>>),
      pylist(<<pylist(<<PyNone>>)>>),
      pytuple(<<pybytes(<<"a">>)>>),
      pydict(<<[key |-> pyint(1), val |-> pybytes(<<"a">>)]>>) }

\* pack(["SET", "key", "value"])
SetKeyValue ==
    pylist(<<pystr(<<"S", "E", "T">>), pystr(<<"k", "e", "y">>),
             pystr(<<"v", "a", "l", "u", "e">>)>>)

PackArgs ==
    PackScalars \cup PackDicts \cup {SetKeyValue}
        \cup {pylist(v) : v \in SeqsUpTo(PackItems, MaxItems)}
        \cup {pytuple(v) : v \in SeqsUpTo({PyNone, pybytes(<<"a">>), pystr(<<"a">>)},
                                           MaxItems)}

InitPack ==
    /\ libc \in Libcs
    /\ args \in PackArgs
    /\ stream = <<>>
    /\ pos = 0
    /\ buffer = NewParser.buffer
    /\ current = NewParser.current
    /\ tasks = NewParser.tasks
    /\ encoding \in Encodings
    /\ replies = <<>>
    /\ last = [tag |-> "new"]

\* pack_command(args): its bytes are what the peer sends back
PackCommand ==
    /\ last.tag = "new"
    /\ stream' = pack_command(args)
    /\ last' = [tag |-> "pack_command"]
    /\ UNCHANGED <<libc, args, pos, buffer, current, tasks, encoding, replies>>

\* all of them fed in one call
FeedPacked ==
    /\ last.tag = "pack_command"
    /\ Feed(Len(stream))

\* one get() call
GetPacked ==
    /\ last.tag = "feed"
    /\ GetReply

NextPack == PackCommand \/ FeedPacked \/ GetPacked

SpecPack == InitPack /\ [][NextPack]_vars

\* ------------------------------------------------------------------------
\* Header lines whose text is not a number
\* ------------------------------------------------------------------------

\* texts behind the type byte: none, a letter, a lone sign, a letter before
\* and behind a digit, a space before a digit, a letter behind -1
HeaderTexts ==
    { <<>>, <<"a">>, <<"-">>, <<"a", "1">>, <<"1", "a">>, <<" ", "1">>,
      <<"-", "1", "a">> }

LenientTokens ==
    {<<t>> \o x \o CRLF :
        t \in {RESPONSE_INTEGER, RESPONSE_STRING, RESPONSE_ARRAY},
        x \in HeaderTexts}
    \cup { <<"*", "1", CR, LF>>,       \* array header, one element
           <<"X", CR, LF>>,            \* one payload byte, or a bad header
           <<CR, LF>> }                \* empty payload, or an empty header

RECURSIVE LenientStreamsUpTo(_)
LenientStreamsUpTo(n) ==
    {<<>>} \cup
    UNION {{t \o s : s \in LenientStreamsUpTo(n - Len(t))} :
             t \in {u \in LenientTokens : Len(u) <= n}}

\* the number of bytes of the longest of them
MaxLenientBytes == 10

LenientStreams == LenientStreamsUpTo(MaxLenientBytes)

InitLenient ==
    /\ libc = "glibc"
    /\ args = NULL
    /\ stream \in LenientStreams
    /\ pos = 0
    /\ buffer = NewParser.buffer
    /\ current = NewParser.current
    /\ tasks = NewParser.tasks
    /\ encoding = ""
    /\ replies = <<>>
    /\ last = [tag |-> "new"]

SpecLenient == InitLenient /\ [][Next]_vars

\* the caller that drains the decoder before it feeds more: get() is called
\* until it returns Py_False after each feed; the chunks are of any size
FeedDrained(n) ==
    /\ last.tag \in {"new", "False"}
    /\ Feed(n)

NextDrained ==
    \/ \E n \in 1..Len(stream) : FeedDrained(n)
    \/ GetReply

SpecDrained == InitWellFormed /\ [][NextDrained]_vars

\* one array reply fed one byte at a time, get() called after every byte
InitArray ==
    /\ libc = "glibc"
    /\ args = NULL
    /\ stream \in ArrayStreams
    /\ pos = 0
    /\ buffer = NewParser.buffer
    /\ current = NewParser.current
    /\ tasks = NewParser.tasks
    /\ encoding = ""
    /\ replies = <<>>
    /\ last = [tag |-> "new"]

FeedByte ==
    /\ last.tag # "feed"
    /\ Feed(1)

GetAfterByte ==
    /\ last.tag = "feed"
    /\ GetReply

NextByte == FeedByte \/ GetAfterByte

SpecByte == InitArray /\ [][NextByte]_vars

\* ------------------------------------------------------------------------
\* Properties
\* ------------------------------------------------------------------------

\* the number of bytes the decoder has taken out of the buffer
Consumed == pos - Len(buffer)

\* the result of the get() call made in the current state, with the parser
\* state it leaves and the log of what the call did
Call == get(Parser, encoding)

\* C1: fragmentation invariance.  Once the whole stream has been fed in
\* chunks, the decoder drained after each chunk, the objects the get() calls
\* returned are those returned when the stream is fed in one call and then
\* drained.
C1_FragmentationInvariance ==
    (pos = Len(stream) /\ last = PyFalse)
        => replies = Results(OneShot(stream, encoding))

\* C2: ordering.  At every moment the objects returned so far are the first
\* replies of the stream, in its order, and the bytes of the latest of them
\* (and of those before it) have all been taken out of the buffer.
C2_Ordering ==
    LET ref == OneShot(stream, "")
        k == Len(replies)
    IN  /\ k <= Len(ref)
        /\ EncodedAll(replies) = SubSeq(Results(ref), 1, k)
        /\ k > 0 => Consumed >= Len(stream) - ref[k].left

\* C3: a nested array fed one byte at a time, get() called after every byte:
\* every call before the last byte returns Py_False, the call after the last
\* byte returns the array that feeding the whole encoding at once returns.
C3_ByteAtATime ==
    last.tag \notin {"new", "feed"}
        => IF pos < Len(stream) THEN last = PyFalse
           ELSE last = OneShot(stream, "")[1].res

\* the offset at which the reply ends that the byte at offset c belongs to
NextEnd(s, c) ==
    LET later == {e \in UnitEnds(s, 0) : e > c}
    IN  CHOOSE e \in later : \A f \in later : e <= f

\* the stream is made of complete replies, all of the next one to decode
\* has been fed already
NextReplyFed ==
    /\ WellFormed(stream)
    /\ Consumed < Len(stream)
    /\ pos >= NextEnd(stream, Consumed)

\* C4: prompt completion.  When every byte of the next reply of a well-formed
\* stream has been fed, the get() call returns an object, not Py_False,
\* whatever feed and get() calls came before.
C4_PromptCompletion ==
    NextReplyFed => IsObject(Call.res) /\ Call.res # PyFalse

\* a nested array was pending, its inner task waiting on the outer one, and
\* the call completes it
C4_Witness ==
    /\ NextReplyFed
    /\ current # NullTask
    /\ tasks[current].kind = "Array"
    /\ tasks[current].next # NullTask
    /\ Call.res.tag = "list"
    /\ Call.p.current = NullTask

\* the header lines the get() call made in the current state dispatches on,
\* at any depth, and the bulk strings it completes
Log == Call.p.log

Headers == {i \in 1..Len(Log) : Log[i].op = "_get"}

TypeBytes ==
    {RESPONSE_STATUS, RESPONSE_ERROR, RESPONSE_INTEGER, RESPONSE_STRING,
     RESPONSE_ARRAY}

BadHeaders == {i \in Headers : Head(Log[i].line) \notin TypeBytes}

\* the first line of the buffer, when the decoder is idle and there is one
IdleLine == substr(buffer, 0, find(buffer))

IdleWithLine == current = NullTask /\ find(buffer) > 0

\* C5: a header line with an unrecognized type byte, met at any depth, leaves
\* the buffer empty: the bytes behind it are discarded.  In the idle state
\* get() returns the ProtocolError and the buffer is empty afterwards.
C5_ProtocolErrorClearsBuffer ==
    /\ \A i \in BadHeaders :
          Log[i].to.buffer = <<>> /\ Log[i].res = protocolError
    /\ (IdleWithLine /\ Head(IdleLine) \notin TypeBytes)
          => Call.res = protocolError /\ Call.p.buffer = <<>>

\* a bad header line met while an array is decoded, with bytes behind it
C5_Witness ==
    \E i \in BadHeaders :
        /\ Log[i].next # NullTask
        /\ Len(Log[i].from.buffer) > Len(Log[i].line) + 2

\* C6: the ProtocolError built for an unrecognized type byte, met at any
\* depth, is what the same get() call returns.
C6_ProtocolErrorReturned ==
    BadHeaders # {} => Call.res = protocolError

\* C7: a "-" line is decoded like a "+" line.  At any depth it yields the
\* error object carrying the text of the line, and leaves the parser as it
\* was but for the line and its CRLF taken off the buffer, which is what a
\* "+" line does with the bytes object it yields; in the idle state get()
\* returns that object and the decoder stays idle.
C7_ReplyErrorIsAReply ==
    /\ \A i \in Headers :
          Head(Log[i].line) \in {RESPONSE_ERROR, RESPONSE_STATUS}
             => /\ Log[i].to = [Log[i].from EXCEPT
                                  !.buffer = erase(@, Len(Log[i].line) + 2)]
                /\ Log[i].res = IF Head(Log[i].line) = RESPONSE_ERROR
                                THEN replyError(Tail(Log[i].line))
                                ELSE pybytes(Tail(Log[i].line))
    /\ (IdleWithLine /\ Head(IdleLine) \in {RESPONSE_ERROR, RESPONSE_STATUS})
          => /\ Call.res = IF Head(IdleLine) = RESPONSE_ERROR
                           THEN replyError(Tail(IdleLine))
                           ELSE pybytes(Tail(IdleLine))
             /\ Unlogged(Call.p) =
                  [Parser EXCEPT !.buffer = erase(@, Len(IdleLine) + 2)]

\* a "-" line that is an element of an array, followed by an element that
\* the same call decodes
C7_Witness ==
    \E i \in Headers :
        /\ Head(Log[i].line) = RESPONSE_ERROR
        /\ Log[i].next # NullTask
        /\ \E j \in Headers : j > i /\ Log[j].next = Log[i].next
                                    /\ IsObject(Log[j].res)

\* the bulk strings the call completes
Strings == {i \in 1..Len(Log) : Log[i].op = "StringTask"}

NilBulk == <<RESPONSE_STRING, "-", "1">>
NilArray == <<RESPONSE_ARRAY, "-", "1">>
EmptyBulk == <<RESPONSE_STRING, "0">>
EmptyArray == <<RESPONSE_ARRAY, "0">>

\* what is left of a buffer once n bytes are taken off its front
Taken(i, n) == Log[i].to.buffer = erase(Log[i].from.buffer, n)

\* C8: nil distinction, at any depth and in any call.  "$-1" CRLF and "*-1"
\* CRLF yield None and take their header line only; "*0" CRLF yields the
\* empty list; "$0" CRLF CRLF yields the empty bytes (or str) object, at once
\* or when its task is resumed; None is neither of the empty objects.
C8_NilDistinction ==
    /\ \A i \in Headers :
          /\ Log[i].line \in {NilBulk, NilArray}
                => Log[i].res = PyNone /\ Taken(i, 5)
          /\ Log[i].line = EmptyArray
                => Log[i].res = PyList_New /\ Taken(i, 4)
          /\ Log[i].line = EmptyBulk
                => IF Len(Log[i].from.buffer) >= 6
                   THEN Log[i].res \in {pybytes(<<>>), PyUnicode_Decode(<<>>, encoding)}
                        /\ Taken(i, 6)
                   ELSE Log[i].res = NULL /\ Taken(i, 4)
          /\ Log[i].res = PyNone
                => Log[i].line \in {NilBulk, NilArray}
    /\ \A i \in Strings :
          Log[i].length = 0
             => Log[i].res \in {pybytes(<<>>), PyUnicode_Decode(<<>>, encoding)}
                /\ Taken(i, 2)
    /\ PyNone \notin {pybytes(<<>>), PyUnicode_Decode(<<>>, encoding), PyList_New}

\* a resumed call that decodes a nil bulk as the element of an array
C8_Witness ==
    /\ current # NullTask
    /\ Call.res = PyList_Append(PyList_New, PyNone)
    /\ \E i \in Headers : Log[i].next # NullTask /\ Log[i].line = NilBulk

\* a step of the decoder that is a get() call
GetStep == last'.tag \notin {"new", "feed", "set_encoding"}

\* C9: get() called in the idle state on a buffer without CRLF returns
\* Py_False and leaves the buffer, the pending task and the encoding alone.
C9_IdleWithoutLine ==
    [][(current = NullTask /\ find(buffer) = npos /\ GetStep)
          => /\ last' = PyFalse
             /\ buffer' = buffer
             /\ current' = current
             /\ tasks' = tasks
             /\ encoding' = encoding]_vars

\* get() has returned Py_False in the idle state with bytes in the buffer and
\* an encoding set
C9_Witness ==
    /\ last = PyFalse
    /\ current = NullTask
    /\ buffer # <<>>
    /\ find(buffer) = npos
    /\ encoding # ""

\* the outermost task of the chain that starts at task t
RECURSIVE Root(_, _)
Root(heap, t) ==
    IF heap[t].next = NullTask THEN t ELSE Root(heap, heap[t].next)

\* the object get() returns is the value of task t as it stands in the
\* current state: its array with the elements still missing appended, or
\* the bulk string of its length
ValueOf(t, obj) ==
    IF tasks[t].kind = "Array"
    THEN /\ obj.tag = "list"
         /\ Len(obj.val) = Len(tasks[t].array.val) + tasks[t].length
         /\ SubSeq(obj.val, 1, Len(tasks[t].array.val)) = tasks[t].array.val
    ELSE obj \in {pybytes(substr(buffer, 0, tasks[t].length)),
                  PyUnicode_Decode(substr(buffer, 0, tasks[t].length), encoding)}

\* C10: with a task pending, get() resumes the chain and dispatches on no new
\* top-level header line; the object it returns, if any, is the value of the
\* outermost task of the chain, which is then gone.
C10_ResumeFirst ==
    (current # NullTask /\ Call.res # OutOfRange)
        => /\ \A i \in Headers : Log[i].next # NullTask
           /\ Call.res # PyFalse
                 => /\ ValueOf(Root(tasks, current), Call.res)
                    /\ Root(tasks, current) \notin DOMAIN Call.p.tasks
                    /\ Call.p.current = NullTask

\* an array was pending and the call returns it while the buffer holds a
\* complete later reply, which stays in the buffer
C10_Witness ==
    /\ current # NullTask
    /\ tasks[Root(tasks, current)].kind = "Array"
    /\ Call.res.tag = "list"
    /\ Headers # {}
    /\ find(Call.p.buffer) # npos

\* the decoder is idle and its buffer starts with a complete reply
IdleWithReply == current = NullTask /\ UnitEnd(buffer, 0) # npos

\* the decoder is idle and its buffer is made of complete replies
IdleWithReplies == current = NullTask /\ buffer # <<>> /\ WellFormed(buffer)

\* the numbers of bytes that follow each of the replies a buffer is made of,
\* in the order of the replies
RECURSIVE LeftAfter(_, _)
LeftAfter(s, i) ==
    IF i = Len(s) THEN <<>>
    ELSE <<Len(s) - UnitEnd(s, i)>> \o LeftAfter(s, UnitEnd(s, i))

\* the get() calls made in the current state until one returns Py_False
Drainage == Drain(Parser, encoding, <<>>)

\* C11: one reply per call.  With the decoder idle and a complete reply at
\* the front of the buffer, get() returns an object and leaves in the buffer
\* exactly the bytes that follow that reply, the decoder idle again; a buffer
\* made of k complete replies is emptied by k calls, each returning an object
\* and taking the bytes of one reply.
C11_OneReplyPerCall ==
    /\ IdleWithReply
          => /\ IsObject(Call.res) /\ Call.res # PyFalse
             /\ Call.p.buffer = erase(buffer, UnitEnd(buffer, 0))
             /\ Call.p.current = NullTask
    /\ IdleWithReplies
          => [i \in 1..Len(Drainage) |-> Drainage[i].left] = LeftAfter(buffer, 0)

\* C12: terminal condition of a get() call that returns.  Either it returns
\* an object and no task is pending afterwards, or it returns Py_False and a
\* task of the heap is pending afterwards, unless the call was made idle on a
\* buffer without a complete line, which changes nothing; it never returns
\* Py_False with bytes taken from the buffer and no task pending.
C12_TerminalCondition ==
    Call.res # OutOfRange
        => IF Call.res # PyFalse
           THEN Call.p.current = NullTask
           ELSE /\ \/ /\ current = NullTask
                      /\ find(buffer) = npos
                      /\ Unlogged(Call.p) = Parser
                   \/ /\ Call.p.current # NullTask
                      /\ Call.p.current \in DOMAIN Call.p.tasks
                /\ ~(Call.p.buffer # buffer /\ Call.p.current = NullTask)

\* pack_command has returned
Packed == last.tag # "new"

\* get() has been called on the packed bytes
Unpacked == last.tag \notin {"new", "pack_command", "feed"}

\* the bytes of a byte string or of a text
BytesOf(x) == IF x.tag = "str" THEN utf8_encode(x.val) ELSE x.val

\* "$" + decimal(byte length) + CRLF + bytes + CRLF, and "$-1" CRLF for None
BulkUnit(x) ==
    IF x = PyNone THEN <<"$", "-", "1", CR, LF>>
    ELSE <<"$">> \o Decimal(Len(BytesOf(x))) \o CRLF \o BytesOf(x) \o CRLF

RECURSIVE BulkUnits(_)
BulkUnits(items) ==
    IF items = <<>> THEN <<>> ELSE BulkUnit(Head(items)) \o BulkUnits(Tail(items))

\* a sequence of byte strings, texts and None
FlatArgs ==
    /\ args.tag \in {"list", "tuple"}
    /\ \A i \in 1..Len(args.val) : args.val[i].tag \in {"bytes", "str", "None"}

\* C13: pack of a sequence of N byte strings, texts and None is "*" +
\* decimal(N) + CRLF followed, in order, by "$" + decimal(byte length) + CRLF
\* + bytes + CRLF for each element, a text by its UTF-8 bytes and None as
\* "$-1" + CRLF; pack(["SET", "key", "value"]) is
\* "*3\r\n$3\r\nSET\r\n$3\r\nkey\r\n$5\r\nvalue\r\n".
C13_PackFormat ==
    /\ (Packed /\ FlatArgs)
          => stream = <<"*">> \o Decimal(Len(args.val)) \o CRLF \o BulkUnits(args.val)
    /\ (Packed /\ args = SetKeyValue)
          => stream = <<"*", "3", CR, LF,
                        "$", "3", CR, LF, "S", "E", "T", CR, LF,
                        "$", "3", CR, LF, "k", "e", "y", CR, LF,
                        "$", "5", CR, LF, "v", "a", "l", "u", "e", CR, LF>>
    /\ (Packed /\ args = pylist(<<pystr(<<EAcute>>), PyNone>>))
          => stream = <<"*", "2", CR, LF, "$", "2", CR, LF, xC3, xA9, CR, LF,
                        "$", "-", "1", CR, LF>>

\* a text beyond ASCII and None have been packed
C13_Witness ==
    /\ Packed
    /\ args = pylist(<<pystr(<<EAcute>>), PyNone>>)
    /\ Len(stream) = 17

\* C14 as stated: the object get() returns for the packed bytes of a list
\* is that list, whatever the kinds of its elements, and the decoder is left
\* with an empty buffer and no pending task.
C14_RoundTrip ==
    (Unpacked /\ args.tag = "list")
        => last = args /\ buffer = <<>> /\ current = NullTask

\* a byte string, None, or a list of such objects nested to any depth
RECURSIVE BytesTree(_)
BytesTree(x) ==
    \/ x.tag \in {"bytes", "None"}
    \/ x.tag = "list" /\ \A i \in 1..Len(x.val) : BytesTree(x.val[i])

\* C14 amended: the round trip holds for a list of byte strings, None and
\* lists of these nested to any depth, decoded with no text encoding set:
\* get() returns an equal list, the buffer is empty, no task is pending and
\* none is left on the heap.
C14_RoundTripOfBytes ==
    (Unpacked /\ args.tag = "list" /\ BytesTree(args) /\ encoding = "")
        => last = args /\ buffer = <<>> /\ current = NullTask /\ tasks = <<>>

\* a list with a byte string holding CR LF and a nested list has come back
C14_Witness ==
    /\ Unpacked
    /\ encoding = ""
    /\ args = pylist(<<pybytes(CRLF), pylist(<<PyNone, pybytes(<<"a">>)>>)>>)
    /\ last = args

\* the offsets at which the first n replies start that follow each other
\* from offset i of s on
RECURSIVE UnitStarts(_, _, _)
UnitStarts(s, i, n) ==
    IF n = 0 \/ i = npos \/ i >= Len(s) THEN <<>>
    ELSE <<i>> \o UnitStarts(s, UnitEnd(s, i), n - 1)

\* the offsets at which the elements of the array start that s begins with
ElementStarts(s) ==
    UnitStarts(s, find(s) + 2, NumberValue(substr(s, 1, find(s) - 1)))

\* the packed bytes are one complete array and nothing else
OneArray ==
    /\ Head(stream) = RESPONSE_ARRAY
    /\ UnitEnd(stream, 0) = Len(stream)

\* C15 as stated: whatever the elements of the sequence packed, the bytes
\* are one array and each of its elements is a bulk unit.
C15_ArrayOfBulks ==
    (Packed /\ args.tag \in {"list", "tuple"})
        => /\ OneArray
           /\ \A k \in 1..Len(ElementStarts(stream)) :
                 stream[ElementStarts(stream)[k] + 1] = RESPONSE_STRING

\* C15 amended: the bytes packed for a list or a tuple are one array with
\* one element for each element of the sequence, in its order: a nested
\* array for an element that is a list, a tuple or a dict, a bulk unit for
\* None, bytes, str and int.
C15_ArrayOfUnits ==
    (Packed /\ args.tag \in {"list", "tuple"})
        => /\ OneArray
           /\ Len(ElementStarts(stream)) = Len(args.val)
           /\ \A k \in 1..Len(args.val) :
                 stream[ElementStarts(stream)[k] + 1] =
                    IF args.val[k].tag \in {"list", "tuple", "dict"}
                    THEN RESPONSE_ARRAY ELSE RESPONSE_STRING

\* a list of a nested list and a scalar has been packed
C15_Witness ==
    /\ Packed
    /\ args = pylist(<<pylist(<<PyNone, pybytes(<<"a">>)>>), pybytes(<<"a">>)>>)
    /\ ElementStarts(stream) = <<4, 20>>

\* the decimal text of the integer reply the stream is
IntegerText == SubSeq(stream, 2, Len(stream) - 2)

\* C16: the reply ":" + decimal(n) + CRLF, n in the signed 64-bit range,
\* decodes to the int n: once the line is complete get() has returned one
\* object, an int whose decimal text is the text of the line.
C16_IntegerRange ==
    (pos = Len(stream) /\ last.tag \notin {"new", "feed"})
        => /\ Len(replies) = 1
           /\ replies[1].tag = "int"
           /\ Decimal(replies[1].val) = IntegerText

\* the tasks reached from task t by following Task::next, as far as the links
\* lead to tasks of the heap
RECURSIVE ChainOf(_, _)
ChainOf(heap, t) ==
    IF t = NullTask \/ t \notin DOMAIN heap THEN {}
    ELSE {t} \cup ChainOf(heap, heap[t].next)

\* C17: chain invariant.  Between calls every task of the heap is on the
\* chain that starts at _current, _current is the task created last, and
\* every other task of the chain is an ArrayTask that still waits for
\* elements.
C17_ChainInvariant ==
    /\ DOMAIN tasks = ChainOf(tasks, current)
    /\ \A t \in DOMAIN tasks :
          /\ t <= current
          /\ t # current
                => /\ tasks[t].kind = "Array"
                   /\ tasks[t].length > 0

\* the tasks the call resumes and that produce their object
Resumes == {i \in 1..Len(Log) : Log[i].op = "resume"}

\* the header lines of elements for which the call makes a task that does
\* not complete
SuspendedChildren ==
    {i \in Headers :
        /\ Log[i].next # NullTask
        /\ Log[i].res = NULL
        /\ Head(Log[i].line) \in {RESPONSE_STRING, RESPONSE_ARRAY}}

\* the task made for header line i
ChildOf(i) == NewAddress(Log[i].from.tasks)

\* the array of task a when the call has returned: the one it has on the
\* heap, or the one it produced if the call completed it
ArrayAfter(a) ==
    IF a \in DOMAIN Call.p.tasks THEN Call.p.tasks[a].array
    ELSE Log[CHOOSE j \in Resumes : Log[j].task = a].res

\* C18: a task made for an element of an array and suspended stays on the
\* pending chain, with that array as its continuation, so that the next
\* call resumes it; and when a resumed task with a continuation produces
\* its object, that object is the next element of the continuation's array.
C18_SuspendedChildResumed ==
    Call.res # OutOfRange
        => /\ \A i \in SuspendedChildren :
                 /\ ChildOf(i) \in ChainOf(Call.p.tasks, Call.p.current)
                 /\ Call.p.tasks[ChildOf(i)].next = Log[i].next
           /\ \A j \in Resumes :
                 Log[j].next # NullTask
                    => /\ Len(ArrayAfter(Log[j].next).val)
                             > Len(tasks[Log[j].next].array.val)
                       /\ ArrayAfter(Log[j].next).val
                             [Len(tasks[Log[j].next].array.val) + 1] = Log[j].res

\* the header lines of arrays with a count of 0 or more
ArrayHeaders ==
    {i \in Headers :
        Head(Log[i].line) = RESPONSE_ARRAY /\ atoi(Tail(Log[i].line)) >= 0}

\* the elements an array task holds and those it still waits for
Declared(task) == Len(task.array.val) + task.length

\* list a starts with the elements of list b, in their order
Extends(a, b) ==
    /\ Len(a.val) >= Len(b.val)
    /\ SubSeq(a.val, 1, Len(b.val)) = b.val

\* C19: array count.  An array task made for "*N" that does not complete at
\* once holds N elements less those it waits for; a call leaves that sum as
\* it is in every array task and only appends to its array; the list produced
\* for "*N", by the call that reads the header or by a later one that resumes
\* the task, has N elements, those appended before still at its front.
C19_ArrayCount ==
    /\ \A i \in ArrayHeaders :
          IF Log[i].res = NULL
          THEN /\ ChildOf(i) \in DOMAIN Log[i].to.tasks
               /\ Declared(Log[i].to.tasks[ChildOf(i)]) = atoi(Tail(Log[i].line))
          ELSE Log[i].res # OutOfRange
                  => /\ Log[i].res.tag = "list"
                     /\ Len(Log[i].res.val) = atoi(Tail(Log[i].line))
    /\ \A t \in DOMAIN tasks \cap DOMAIN Call.p.tasks :
          tasks[t].kind = "Array"
             => /\ Declared(Call.p.tasks[t]) = Declared(tasks[t])
                /\ Extends(Call.p.tasks[t].array, tasks[t].array)
    /\ \A j \in Resumes :
          tasks[Log[j].task].kind = "Array"
             => /\ Log[j].res.tag = "list"
                /\ Len(Log[j].res.val) = Declared(tasks[Log[j].task])
                /\ Extends(Log[j].res, tasks[Log[j].task].array)

\* a resumed array nested in another one produces its list, which holds an
\* element appended by an earlier call
C19_Witness ==
    \E j \in Resumes :
        /\ tasks[Log[j].task].kind = "Array"
        /\ Log[j].next # NullTask
        /\ Len(tasks[Log[j].task].array.val) > 0
        /\ Len(Log[j].res.val) > Len(tasks[Log[j].task].array.val)

\* a bulk string task of length 0 or more is pending and the buffer holds
\* its bytes and the CRLF behind them
PendingStringReady ==
    /\ current # NullTask
    /\ tasks[current].kind = "String"
    /\ tasks[current].length >= 0
    /\ Len(buffer) >= tasks[current].length + 2

\* C20: scalar step with enough data.  Whenever a bulk string of length
\* N >= 0 is decoded with N + 2 bytes or more in the buffer, in the call that
\* reads its header or in a later one, the step produces an object whose
\* bytes are the first N bytes of the buffer, takes N + 2 bytes off the front
\* of the buffer and leaves no task pending; a pending bulk string task
\* whose bytes are there completes in the next call.
C20_ScalarStep ==
    /\ \A i \in Strings :
          Log[i].length >= 0
             => /\ IsObject(Log[i].res)
                /\ Encoded(Log[i].res) =
                      pybytes(substr(Log[i].from.buffer, 0, Log[i].length))
                /\ Len(Log[i].from.buffer) >= Log[i].length + 2
                /\ Taken(i, Log[i].length + 2)
                /\ Log[i].to.current = NullTask
    /\ PendingStringReady
          => /\ Log # <<>>
             /\ Log[1].op = "StringTask"
             /\ Log[1].from = Parser

\* the header lines of bulk strings of length 0 or more that the call reads
\* with fewer bytes behind them than the length and 2 more
ShortStrings ==
    {i \in Headers :
        /\ Head(Log[i].line) = RESPONSE_STRING
        /\ atoi(Tail(Log[i].line)) >= 0
        /\ Len(Log[i].from.buffer) - (Len(Log[i].line) + 2)
              < atoi(Tail(Log[i].line)) + 2}

\* a bulk string task of length 0 or more is pending
PendingString ==
    /\ current # NullTask
    /\ tasks[current].kind = "String"
    /\ tasks[current].length >= 0

\* C21: scalar step with insufficient data.  A bulk string of length N read
\* with fewer than N + 2 bytes behind its header takes no byte but the header
\* line, its task becomes the pending task and the step yields no object; a
\* call made with that task pending and still fewer than N + 2 bytes returns
\* Py_False and changes nothing; a call made once N + 2 bytes are there
\* completes the task with the same N: its step yields the first N bytes as
\* its object.
C21_ScalarWait ==
    /\ \A i \in ShortStrings :
          /\ Log[i].res = NULL
          /\ Taken(i, Len(Log[i].line) + 2)
          /\ Log[i].to.current = ChildOf(i)
          /\ Log[i].to.tasks =
                (ChildOf(i) :> StringTask(atoi(Tail(Log[i].line)), Log[i].next))
                   @@ Log[i].from.tasks
    /\ PendingString
          => IF Len(buffer) < tasks[current].length + 2
             THEN Call.res = PyFalse /\ Unlogged(Call.p) = Parser
             ELSE /\ Log # <<>>
                  /\ Log[1].op = "StringTask"
                  /\ Log[1].length = tasks[current].length
                  /\ IsObject(Log[1].res)
                  /\ Encoded(Log[1].res) =
                        pybytes(substr(buffer, 0, tasks[current].length))

\* a bulk string that is an element of an array waits, with a part of its
\* payload in the buffer
C21_Witness ==
    /\ PendingString
    /\ tasks[current].next # NullTask
    /\ buffer # <<>>
    /\ Len(buffer) < tasks[current].length + 2
    /\ last = PyFalse

\* C22: stalled stream.  When the latest get() call has returned Py_False,
\* the next one, made with nothing fed in between, returns Py_False too and
\* leaves the buffer, the pending task and the heap of tasks, with the arrays
\* they hold, as they are; so does every call after it.
C22_StalledStream ==
    last = PyFalse => Call.res = PyFalse /\ Unlogged(Call.p) = Parser

\* the bytes a step of the decoder interprets: a header line and its CRLF, or
\* the payload of a bulk string and the CRLF behind it
EventBytes(e) ==
    CASE e.op = "_get" -> Len(e.line) + 2
      [] e.op = "StringTask" -> e.length + 2
      [] OTHER -> 0

RECURSIVE Interpreted(_)
Interpreted(log) ==
    IF log = <<>> THEN 0 ELSE EventBytes(Head(log)) + Interpreted(Tail(log))

\* the bytes the get() call made in the current state interprets; the call
\* that ends on an empty header line has taken that line too
InterpretedBytes ==
    Interpreted(Log) + (IF Call.res = OutOfRange THEN 2 ELSE 0)

\* the buffer holds the bytes fed last, in the order they were fed
BufferIsSuffix == buffer = SubSeq(stream, Consumed + 1, pos)

\* C23 as stated: the buffer is a suffix of the bytes fed so far, and what a
\* get() call takes off its front are the bytes the call interprets as header
\* lines, bulk payloads and the CRLF behind the payloads, no byte more.
C23_BufferInvariant ==
    /\ BufferIsSuffix
    /\ InterpretedBytes <= Len(buffer)
    /\ Call.p.buffer = erase(buffer, InterpretedBytes)

\* C23 amended: the buffer is a suffix of the bytes fed so far; a get() call
\* that meets no header line with an unrecognized type byte takes off the
\* front of the buffer the bytes it interprets as header lines, bulk payloads
\* and the CRLF behind the payloads, and no byte more; a call that meets such
\* a header line leaves the buffer empty, the bytes not interpreted discarded.
C23_BufferAccounted ==
    /\ BufferIsSuffix
    /\ InterpretedBytes <= Len(buffer)
    /\ Call.p.buffer =
          IF BadHeaders = {} THEN erase(buffer, InterpretedBytes) ELSE <<>>

\* a call interprets a header line and a bulk payload and leaves bytes in the
\* buffer; bytes were taken by earlier calls
C23_Witness ==
    /\ Consumed > 0
    /\ Strings # {}
    /\ Headers # {}
    /\ BadHeaders = {}
    /\ InterpretedBytes > 0
    /\ Call.p.buffer # <<>>

\* the dict has an entry at the int key j
HasKey(mapping, j) ==
    \E i \in 1..Len(mapping.val) : mapping.val[i].key = pyint(j)

\* the value of the entry at the int key j
ValueAt(mapping, j) ==
    mapping.val[CHOOSE i \in 1..Len(mapping.val) : mapping.val[i].key = pyint(j)].val

\* the largest k such that the keys 1, ..., k are all present
KeysPresent(mapping) ==
    CHOOSE k \in 0..Len(mapping.val) :
        /\ \A j \in 1..k : HasKey(mapping, j)
        /\ ~HasKey(mapping, k + 1)

\* the bulk unit of a scalar: an int by its decimal text
ScalarUnit(x) ==
    IF x.tag = "int" THEN BulkUnit(pybytes(Decimal(x.val))) ELSE BulkUnit(x)

\* the units of the values at the keys j, ..., k
RECURSIVE ValueUnits(_, _, _)
ValueUnits(mapping, j, k) ==
    IF j > k THEN <<>>
    ELSE ScalarUnit(ValueAt(mapping, j)) \o ValueUnits(mapping, j + 1, k)

\* "*" + k + CRLF and the units of the values at the keys 1, ..., k
MappingUnit(mapping) ==
    <<"*">> \o Decimal(KeysPresent(mapping)) \o CRLF
        \o ValueUnits(mapping, 1, KeysPresent(mapping))

\* the unit of an element that is a scalar or a dict of scalars
ElementUnit(x) == IF x.tag = "dict" THEN MappingUnit(x) ELSE ScalarUnit(x)

RECURSIVE ElementUnits(_)
ElementUnits(items) ==
    IF items = <<>> THEN <<>>
    ELSE ElementUnit(Head(items)) \o ElementUnits(Tail(items))

\* a list of scalars and dicts
ListWithDicts ==
    /\ args.tag = "list"
    /\ \A i \in 1..Len(args.val) : args.val[i].tag \notin {"list", "tuple"}

\* C24: mapping flattening.  A dict, packed on its own or as an element of a
\* list, is written as "*" + k + CRLF followed by the units of the values at
\* the int keys 1, ..., k in increasing order, k the largest number such that
\* the keys 1 to k are all present; entries at other keys (a str, 0, an int
\* behind a gap) are not written, and a dict without the key 1 is "*0" + CRLF.
C24_MappingFlattening ==
    /\ (Packed /\ args.tag = "dict") => stream = MappingUnit(args)
    /\ (Packed /\ args.tag = "dict" /\ ~HasKey(args, 1))
          => stream = <<"*", "0", CR, LF>>
    /\ (Packed /\ ListWithDicts)
          => stream = <<"*">> \o Decimal(Len(args.val)) \o CRLF
                         \o ElementUnits(args.val)

\* a dict whose entry at key 2 was inserted before the one at key 1 has been
\* packed, the value at key 1 first
C24_Witness ==
    /\ Packed
    /\ args.tag = "dict"
    /\ Len(args.val) = 2
    /\ args.val[1].key = pyint(2)
    /\ stream = <<"*", "2", CR, LF, "$", "-", "1", CR, LF,
                  "$", "1", CR, LF, "a", CR, LF>>

\* a text with white space and one sign taken off its front
RECURSIVE Trimmed(_)
Trimmed(text) ==
    IF text # <<>> /\ Head(text) \in Spaces THEN Trimmed(Tail(text)) ELSE text

Unsigned(text) ==
    IF text # <<>> /\ Head(text) \in {"-", "+"} THEN Tail(text) ELSE text

\* the text is no decimal number
NonNumeric(text) == ~IsDecimal(text)

\* the text does not even begin with a number: behind white space and a
\* sign, if any, there is no digit
NoLeadingNumber(text) ==
    Unsigned(Trimmed(text)) = <<>> \/ Head(Unsigned(Trimmed(text))) \notin Digits

\* the header lines of integers, bulk strings and arrays the call reads
NumericHeaders ==
    {i \in Headers :
        Head(Log[i].line) \in {RESPONSE_INTEGER, RESPONSE_STRING, RESPONSE_ARRAY}}

\* the empty bulk string, as bytes or as text
EmptyString == IF encoding = "" THEN pybytes(<<>>) ELSE PyUnicode_Decode(<<>>, encoding)

\* header line i is read as if its number were 0: an integer line yields the
\* int 0, a bulk header a bulk string of length 0 (the empty string once the
\* CRLF behind it is there, a pending task of length 0 before), an array
\* header the empty list
ReadAsZero(i) ==
    /\ Log[i].res # protocolError
    /\ Head(Log[i].line) = RESPONSE_INTEGER => Log[i].res = pyint(0)
    /\ Head(Log[i].line) = RESPONSE_ARRAY
          => Log[i].res = PyList_New /\ Taken(i, Len(Log[i].line) + 2)
    /\ Head(Log[i].line) = RESPONSE_STRING
          => IF Len(Log[i].from.buffer) >= Len(Log[i].line) + 4
             THEN Log[i].res = EmptyString /\ Taken(i, Len(Log[i].line) + 4)
             ELSE /\ Log[i].res = NULL
                  /\ Taken(i, Len(Log[i].line) + 2)
                  /\ Log[i].to.current = ChildOf(i)
                  /\ Log[i].to.tasks[ChildOf(i)] = StringTask(0, Log[i].next)

\* C25 as stated: every header line of an integer, a bulk string or an array
\* whose text behind the type byte is no decimal number is read as if the
\* number were 0, and none yields a ProtocolError.
C25_LenientHeaders ==
    \A i \in NumericHeaders : NonNumeric(Tail(Log[i].line)) => ReadAsZero(i)

\* C25 amended: a header line whose text does not begin with a number (no
\* digit behind the white space and the sign it may start with) is read as if
\* the number were 0; a text that begins with a number and goes on with
\* other bytes is read as that number: "1a" as 1, " 1" as 1, "-1a" as -1,
\* which for a bulk string and an array is None; no such header line yields a
\* ProtocolError.
C25_LeadingNumber ==
    \A i \in NumericHeaders :
        /\ NoLeadingNumber(Tail(Log[i].line)) => ReadAsZero(i)
        /\ NonNumeric(Tail(Log[i].line)) => Log[i].res # protocolError
        /\ Log[i].line \in {<<":", "1", "a">>, <<":", " ", "1">>}
              => Log[i].res = pyint(1)
        /\ Log[i].line = <<":", "-", "1", "a">> => Log[i].res = pyint(-1)
        /\ Log[i].line \in {<<"$", "-", "1", "a">>, <<"*", "-", "1", "a">>}
              => Log[i].res = PyNone /\ Taken(i, 6)
        /\ (Log[i].line \in {<<"$", "1", "a">>, <<"$", " ", "1">>}
              /\ Log[i].res = NULL)
              => Log[i].to.tasks[ChildOf(i)] = StringTask(1, Log[i].next)
        /\ (Log[i].line \in {<<"*", "1", "a">>, <<"*", " ", "1">>}
              /\ IsObject(Log[i].res))
              => Log[i].res.tag = "list" /\ Len(Log[i].res.val) = 1

\* a call reads an integer line without a digit as an element of an array
\* and returns the array
C25_Witness ==
    /\ Call.res.tag = "list"
    /\ \E i \in NumericHeaders :
          /\ Log[i].line = <<":", "a">>
          /\ Log[i].next # NullTask
          /\ Log[i].res = pyint(0)

\* the kinds of object a reply is
ReplyTags == {"bytes", "str", "int", "None", "list", "ReplyError"}

\* C26: totality of get().  In every state, whatever the buffer holds, the
\* call returns: a reply, Py_False or the ProtocolError; no exception leaves
\* it, and a call that takes a header line off the buffer returns as well.
C26_Totality ==
    /\ Call.res # OutOfRange
    /\ \/ Call.res.tag \in ReplyTags
       \/ Call.res = PyFalse
       \/ Call.res = protocolError

\* following Task::next from task t leads to an address that is not on the
\* heap: a task that was destroyed
RECURSIVE Dangling(_, _)
Dangling(heap, t) ==
    /\ t # NullTask
    /\ t \notin DOMAIN heap \/ Dangling(heap, heap[t].next)

\* the tasks the call destroys
Deletes == {i \in 1..Len(Log) : Log[i].op = "delete"}

\* C27: task lifetime.  Between calls and whenever a task is destroyed,
\* _current and the links that lead on from it refer to tasks of the heap
\* only; the continuation a resumed task hands its object to is on the heap;
\* a task that is destroyed was on the heap until then (none is destroyed
\* twice) and its own step had produced its object.
C27_TaskLifetime ==
    /\ ~Dangling(tasks, current)
    /\ \A i \in Deletes :
          /\ Log[i].alive
          /\ IsObject(Log[i].value)
          /\ ~Dangling(Log[i].to.tasks, Log[i].to.current)
    /\ \A j \in Resumes :
          Log[j].next # NullTask => Log[j].next \in Log[j].heap
    /\ ~Dangling(Call.p.tasks, Call.p.current)

\* a resumed call destroys a bulk string task and the array it is an element
\* of, the array first, and leaves no task on the heap
C27_Witness ==
    /\ current # NullTask
    /\ tasks[current].kind = "String"
    /\ Cardinality(ChainOf(tasks, current)) = 2
    /\ Cardinality(Deletes) = 2
    /\ Log[CHOOSE i \in Deletes : \A j \in Deletes : i <= j].task
          = tasks[current].next
    /\ Call.p.tasks = <<>>
    /\ Call.res.tag = "list"

====
